---- MODULE Spec2Model ----
(***************************************************************************)
(* Attendance ledger and session tokens of the teacher_app backend.        *)
(*                                                                         *)
(* The store is the SQLite file behind db_manager.  Every execute_query    *)
(* opens its own connection and commits its own statement, so one SQL      *)
(* statement is one atomic step; record_attendance is three such steps     *)
(* (SELECT, INSERT, UPDATE) and request threads interleave between them.   *)
(* delete_group_by_id runs its four DELETEs on one connection with one     *)
(* commit, so it is one step.                                              *)
(***************************************************************************)
EXTENDS Integers, Sequences, FiniteSets, Bags, TLC

\* ---- bounds ----
MaxGroupId == 2
MaxStudentId == 2
MaxDate == 2
MaxBatchLen == 2
MaxRows == 2
MaxTicks == 3
MaxTokens == 2
MaxExams == 2
MaxTempFiles == 2
MaxExportSize == 2

Threads == {"t1", "t2"}
\* the request thread of the sequential specification
Workers == {"t1"}

\* argument values a request can carry; 0 stands for an absent, zero or
\* empty value (Python falsy)
GroupArgs == 0..MaxGroupId
StudentArgs == 0..MaxStudentId
DateArgs == 0..MaxDate

RECURSIVE SeqsUpTo(_, _)
SeqsUpTo(S, n) ==
    IF n = 0 THEN {<<>>}
    ELSE LET shorter == SeqsUpTo(S, n - 1)
         IN shorter \cup {Append(q, x) : q \in {r \in shorter : Len(r) = n - 1}, x \in S}

BatchLists == SeqsUpTo(StudentArgs, MaxBatchLen)

VARIABLES
    groups,              \* rows of table groups (group_id)
    students,            \* rows of table students
    attendance,          \* rows of table attendance: a bag, equal rows are kept apart
    next_group_id,       \* AUTOINCREMENT sequence of groups
    next_student_id,     \* AUTOINCREMENT sequence of students
    pc,                  \* per request thread: idle, a statement of record_attendance, reply
    call,                \* per request thread: the request being served
    response,            \* per request thread: the response being returned
    audit,               \* history: why record_attendance returned what it returned
    recorded_present,    \* history: per student, present=true calls that returned True
    now,                 \* the clock, in hours
    tokens,              \* the tokens that exist, issued here or built by a client
    issued,              \* history: the tokens create_access_token returned, with the username asked for
    last_verify,         \* the latest verify_token call and what it returned
    exception_str,       \* how the installed Starlette renders str(HTTPException)
    last_optional,       \* the latest get_current_teacher_optional call and what it returned
    session,             \* what the authentication dependency resolved for the request being served
    exams,               \* rows of table exams
    next_exam_id,        \* AUTOINCREMENT sequence of exams
    last_delete,         \* the latest delete_group_endpoint call and what it reported
    fs,                  \* the temp directory: per path its kind and modification time
    temp_files,          \* FileManager.temp_files, the tracked paths
    cleanup_lock,        \* FileManager.cleanup_lock: free, or the thread holding it
    fpc,                 \* per file-manager thread: where it is
    flocal,              \* per file-manager thread: its local variables
    next_temp,           \* the number mkstemp / mkdtemp gives the next path
    last_removal,        \* history: the latest removal from the file system, and by what
    qr_dir,              \* the QR directory: per entry its kind and modification time
    export,              \* the bulk QR export request in progress
    teachers,            \* table teachers: rows [username, password]
    rpc,                 \* per thread: where its register request stands
    rlocal,              \* per thread: the register request's locals and answer
    last_login,          \* history: the latest login request and its answer
    qr_scan              \* history: the latest QR payload encoded and decoded

dbvars == <<groups, students, attendance, next_group_id, next_student_id>>
thvars == <<pc, call, response, audit>>
attvars == <<groups, students, attendance, next_group_id, next_student_id, pc,
             call, response, audit, recorded_present>>
tokvars == <<now, tokens, issued, last_verify>>
authvars == <<exception_str, last_optional, session>>
examvars == <<exams, next_exam_id, last_delete>>
filevars == <<fs, temp_files, cleanup_lock, fpc, flocal, next_temp, last_removal, qr_dir>>
iovars == <<filevars, export>>
uservars == <<teachers, rpc, rlocal, last_login, qr_scan>>
sidevars == <<authvars, examvars, iovars, uservars>>
vars == <<groups, students, attendance, next_group_id, next_student_id, pc,
          call, response, audit, recorded_present, now, tokens, issued, last_verify,
          sidevars>>

\* ---- rows and queries ----
NoCall == [kind |-> "none", student_id |-> 0, group_id |-> 0, date |-> 0,
           present |-> FALSE, ids |-> <<>>, n_ids |-> 0, success_count |-> 0]
NoResponse == [status |-> 0, success |-> FALSE, marked |-> 0]

GroupExists(g) == g \in groups
StudentExists(s) == \E r \in students : r.student_id = s
StudentRow(s) == CHOOSE r \in students : r.student_id = s
\* SELECT ... FROM attendance WHERE <P(row)>
Select(P(_)) == [r \in {x \in DOMAIN attendance : P(x)} |-> attendance[r]]
RowsFor(s, d) == LET P(r) == r.student_id = s /\ r.date = d IN Select(P)
PresentRows(s) == LET P(r) == r.student_id = s /\ r.present = 1 IN Select(P)

\* ---- get_attendance_summary: one aggregate SELECT ----
\* a column of the result row: an integer, or NULL (Python None)
SqlInt(n) == [is_null |-> FALSE, n |-> n]
SqlNull == [is_null |-> TRUE, n |-> 0]
\* SUM(present) is NULL over no rows; COUNT(*) - NULL is NULL
SqlSum(rows, n) == IF rows = EmptyBag THEN SqlNull ELSE SqlInt(n)
SqlMinus(a, b) == IF a.is_null \/ b.is_null THEN SqlNull ELSE SqlInt(a.n - b.n)
EmptyDict == <<>>
\* date = 0 stands for date = None
get_attendance_summary(group_id, date) ==
    IF group_id = 0 THEN EmptyDict
    ELSE LET OfGroup(r) == r.group_id = group_id /\ (date # 0 => r.date = date)
             PresentOfGroup(r) == OfGroup(r) /\ r.present = 1
             rows == Select(OfGroup)
             total_records == SqlInt(BagCardinality(rows))
             present_count == SqlSum(rows, BagCardinality(Select(PresentOfGroup)))
             absent_count == SqlMinus(total_records, present_count)
         IN  IF date # 0
             THEN [total_records |-> total_records,
                   present_count |-> present_count,
                   absent_count |-> absent_count]
             ELSE [total_records |-> total_records,
                   present_count |-> present_count,
                   absent_count |-> absent_count,
                   total_days |-> SqlInt(Cardinality({r.date : r \in DOMAIN rows})),
                   total_students |->
                       SqlInt(Cardinality({r.student_id : r \in DOMAIN rows}))]

\* Python's all([...]) over ids and the date string
all(xs) == \A i \in DOMAIN xs : xs[i] # 0

\* record_attendance: existing = SELECT ... WHERE student_id = ? AND date = ?
Existing(s, d) == RowsFor(s, d) # EmptyBag

\* record_attendance: if present: ... attendance_count + 1
CountsAlways(present) == TRUE
CountsTowardAttendance(present) == present
Increment(count) == count + 1

\* ---- schema constraints of table attendance (fresh database) ----
\* the table the other schema would give: UNIQUE(student_id, group_id, date)
UniqueViolationPerGroup(s, g, d) ==
    LET P(r) == r.student_id = s /\ r.group_id = g /\ r.date = d IN Select(P) # EmptyBag

\* a table without the constraint
UniqueViolationNever(s, g, d) == FALSE

\* UNIQUE(student_id, date)
UniqueViolation(s, g, d) == RowsFor(s, d) # EmptyBag

\* FOREIGN KEY(student_id) REFERENCES students, FOREIGN KEY(group_id)
\* REFERENCES groups, enforced because get_connection sets foreign_keys = ON
ForeignKeyViolation(s, g) == ~StudentExists(s) \/ ~GroupExists(g)

\* ---- request validation ----
\* scan_attendance: if not all([student_id, group_id, date]) -> 400
MissingFieldsButGroup(s, g, d) == ~all(<<s, d>>)
MissingFields(s, g, d) == ~all(<<s, g, d>>)

\* record_attendance: if not all([student_id, group_id, date]) -> return False
InvalidParameters(s, g, d) == ~all(<<s, g, d>>)

\* mark_absent_endpoint: if not date or not absent_student_ids -> 400
MissingBatchFields(d, ids) == d = 0 \/ ids = <<>>

\* the loop of mark_absent_students up to the next id whose record_attendance
\* call reaches the store; the ids before it return False at once
RECURSIVE SkipRejected(_, _, _)
SkipRejected(ids, g, d) ==
    IF ids = <<>> THEN ids
    ELSE IF InvalidParameters(Head(ids), g, d) THEN SkipRejected(Tail(ids), g, d)
    ELSE ids

\* ---- responses ----
\* scan_attendance: {"success": True, ...} or {"success": False, "message":
\* "Attendance already recorded for this student today"}
ScanResponseIgnoringResult(ret) == [status |-> 200, success |-> TRUE, marked |-> 0]
ScanResponse(ret) == [status |-> 200, success |-> ret, marked |-> 0]
BadRequest == [status |-> 400, success |-> FALSE, marked |-> 0]
\* mark_absent_endpoint: "Marked {len(absent_student_ids)} students as absent"
BatchResponse(success, n) ==
    [status |-> 200, success |-> success, marked |-> IF success THEN n ELSE 0]

\* the three outcomes of record as the scan endpoint reports them
Outcome(r) ==
    IF r.status = 400 THEN "Rejected"
    ELSE IF r.success THEN "Recorded"
    ELSE "AlreadyRecorded"

\* ---- session tokens (auth/JWT.py) ----
JWT_EXPIRATION_HOURS == 24
\* the clock is read at this granularity
ClockStep == JWT_EXPIRATION_HOURS \div 2

Usernames == {"alice", "bob"}
None == "None"
AccessToken == "access_token"
ServerKey == "JWT_SECRET_KEY"

\* Python dicts: d.get(k), d.update(e)
NoClaims == <<>>
Get(d, k) == IF k \in DOMAIN d THEN d[k] ELSE None
Update(d, e) == [k \in DOMAIN d \cup DOMAIN e |-> IF k \in DOMAIN e THEN e[k] ELSE d[k]]

\* the additional_claims a caller of create_access_token may pass
AdditionalClaims ==
    {NoClaims, [username |-> "mallory"], [type |-> "refresh"], [role |-> "admin"]}

\* generate_token: expire = utcnow() + timedelta(hours = JWT_EXPIRATION_HOURS)
ExpiresAtOnce(t) == t
ExpiresAt(t) == t + JWT_EXPIRATION_HOURS

\* generate_token: exp, iat and type overwrite what data carries; signed
\* with the server key
generate_token(data, t) ==
    [payload |-> Update(data, [exp |-> ExpiresAt(t), iat |-> t, type |-> AccessToken]),
     key |-> ServerKey]

\* create_access_token: data = {"username": username}, updated with the
\* additional claims when there are any
create_access_token_value(username, additional_claims, t) ==
    generate_token(IF additional_claims # NoClaims
                   THEN Update([username |-> username], additional_claims)
                   ELSE [username |-> username], t)

jwt_decode_expired_at_exp_only(token, t) ==
    IF token.key # ServerKey THEN "InvalidTokenError"
    ELSE IF "exp" \in DOMAIN token.payload /\ token.payload["exp"] = t
    THEN "ExpiredSignatureError"
    ELSE "ok"
\* jwt.decode(token, JWT_SECRET_KEY, algorithms=[...]): the signature first,
\* then the registered claims; a token is expired once exp <= now
jwt_decode(token, t) ==
    IF token.key # ServerKey THEN "InvalidTokenError"
    ELSE IF "exp" \in DOMAIN token.payload /\ token.payload["exp"] <= t
    THEN "ExpiredSignatureError"
    ELSE "ok"

\* str(e) of an HTTPException: "<status_code>: <detail>" where Starlette
\* defines HTTPException.__str__, the empty string where it does not
ExceptionStrs == {"status_code: detail", "empty"}
HTTPExceptionStr(detail) ==
    IF exception_str = "empty" THEN "" ELSE "401: " \o detail

Accepted(u) == [ok |-> TRUE, username |-> u, detail |-> ""]
Unauthorized(detail) == [ok |-> FALSE, username |-> None, detail |-> detail]

verify_token_single_session(token, t) ==
    LET username == Get(token.payload, "username")
        latest == {i \in issued :
                     /\ i.username = username
                     /\ \A j \in issued :
                           j.username = username
                              => j.token.payload["iat"] <= i.token.payload["iat"]}
    IN IF jwt_decode(token, t) = "ok" /\ username # None
             /\ Get(token.payload, "type") = AccessToken
             /\ token \in {i.token : i \in latest}
       THEN Accepted(username)
       ELSE Unauthorized("Invalid token")
\* verify_token: the HTTPExceptions raised inside the try block are caught by
\* its last handler and raised again with the prefixed detail
verify_token(token, t) ==
    LET decoded == jwt_decode(token, t)
        username == Get(token.payload, "username")
        token_type == Get(token.payload, "type")
    IN IF decoded = "ExpiredSignatureError" THEN Unauthorized("Token expired")
       ELSE IF decoded = "InvalidTokenError" THEN Unauthorized("Invalid token")
       ELSE IF username = None
       THEN Unauthorized("Token verification failed: "
                            \o HTTPExceptionStr("Invalid token: missing username"))
       ELSE IF token_type # AccessToken
       THEN Unauthorized("Token verification failed: "
                            \o HTTPExceptionStr("Invalid token type"))
       ELSE Accepted(username)

\* ---- session tokens: state at start-up ----
NoToken == [payload |-> NoClaims, key |-> ""]
NoVerify == [token |-> NoToken, result |-> Unauthorized("")]

\* ---- get_current_teacher_optional ----
\* a request's Authorization header is prefix followed by rest; a header that
\* is not sent, and a query parameter that is not sent or empty, are falsy
NoHeader == [prefix |-> "", rest |-> NoToken]
Unauthenticated == [ok |-> TRUE, username |-> None, detail |-> ""]
NoOptional == [header |-> NoHeader, query |-> NoToken, result |-> Unauthorized("")]

\* auth_header[7:] if auth_header and auth_header.startswith("Bearer ")
BearerToken(header) ==
    IF header.prefix = "Bearer " THEN header.rest ELSE NoToken

RequestTokenQueryFirst(header, query) ==
    IF query # NoToken THEN query ELSE BearerToken(header)
\* the header's token, or the token query parameter if not token
RequestToken(header, query) ==
    IF BearerToken(header) # NoToken THEN BearerToken(header) ELSE query

get_current_teacher_optional_value(header, query, t) ==
    LET token == RequestToken(header, query)
    IN IF token = NoToken THEN Unauthenticated ELSE verify_token(token, t)

\* ---- authentication of a request (FastAPI Depends) ----
\* the endpoints declared with Depends(get_current_teacher)
RequiresToken == {"scan_attendance", "mark_absent_endpoint", "delete_group_endpoint"}
\* the endpoints declared without an authentication dependency
NoDependency == {"remove_student_endpoint", "delete_student_endpoint"}
NoSession == [endpoint |-> "", ok |-> FALSE, user |-> None]

\* what FastAPI resolves before it calls the handler: get_current_teacher for
\* the endpoints that depend on it (no credentials: refused), nothing for
\* the others
Resolve(endpoint, credentials) ==
    IF endpoint \in RequiresToken
    THEN IF credentials = NoToken
         THEN [endpoint |-> endpoint, ok |-> FALSE, user |-> None]
         ELSE LET r == verify_token(credentials, now)
              IN [endpoint |-> endpoint, ok |-> r.ok, user |-> r.username]
    ELSE [endpoint |-> endpoint, ok |-> TRUE, user |-> None]

NoDelete == [group_id |-> 0, success |-> FALSE, fail_at |-> 0, turn |-> FALSE,
             attendance_deleted |-> 0, exams_deleted |-> 0, students_deleted |-> 0]

\* ---- FileManager (utils/file_manager.py) ----
max_file_age == 86400
SecondsPerHour == 3600
\* time.time()
time == now * SecondsPerHour

Cleaner == "cleanup_worker"
RequestThreads == {"request"}
FileThreads == {Cleaner} \cup RequestThreads

\* the paths mkstemp / mkdtemp hand out in the temp directory, and for a
\* directory among them a file a caller keeps inside it
TempPath(n) == [n |-> n, inside |-> FALSE]
Inside(path) == [n |-> path.n, inside |-> TRUE]
TempPaths == {TempPath(n) : n \in 1..MaxTempFiles}
Paths == TempPaths \cup {Inside(path) : path \in TempPaths}

Absent == [kind |-> "none", mtime |-> 0]
\* os.path.exists, os.path.isdir, os.path.getmtime
Exists(path) == fs[path].kind # "none"
IsDir(path) == fs[path].kind = "dir"
\* what os.remove(path) or shutil.rmtree(path) takes away
Removed(path) ==
    {path} \cup (IF IsDir(path) /\ Exists(Inside(path)) THEN {Inside(path)} ELSE {})
AfterRemove(path) == [q \in Paths |-> IF q \in Removed(path) THEN Absent ELSE fs[q]]

\* list.remove(x): the first occurrence
RECURSIVE ListRemove(_, _)
ListRemove(list, x) ==
    IF list = <<>> THEN list
    ELSE IF Head(list) = x THEN Tail(list)
    ELSE <<Head(list)>> \o ListRemove(Tail(list), x)
RECURSIVE ListRemoveAll(_, _)
ListRemoveAll(list, xs) ==
    IF xs = <<>> THEN list
    ELSE ListRemoveAll(ListRemove(list, Head(xs)), Tail(xs))
InList(list, x) == \E i \in DOMAIN list : list[i] = x

\* cleanup_old_files: file_age > self._max_file_age
Old(file_age) == file_age > max_file_age

\* the entries of the QR directory: the image generate_student_qr writes for
\* a student, a file that is no image, a directory whose name ends in .png
StudentQr(s) == [stem |-> "student", n |-> s, suffix |-> ".png"]
QrNames == {StudentQr(s) : s \in 1..MaxStudentId}
              \cup {[stem |-> "notes", n |-> 0, suffix |-> ".txt"],
                    [stem |-> "folder", n |-> 0, suffix |-> ".png"]}
\* cleanup_qr_codes(max_age_hours = 24)
max_age_hours == 24
\* os.path.isfile(file_path) and filename.endswith('.png') and
\* file_age > max_age_seconds
IsFile(entry) == entry.kind \in {"file", "empty file"}
QrToRemove(hours) ==
    {name \in QrNames :
        /\ IsFile(qr_dir[name])
        /\ name.suffix = ".png"
        /\ time - qr_dir[name].mtime > hours * SecondsPerHour}

NoLocal == [path |-> TempPath(0), todo |-> <<>>, files_to_remove |-> <<>>,
            current_time |-> 0]
NoRemoval == [by |-> "", paths |-> {}, turn |-> FALSE]

FileInit ==
    /\ fs = [path \in Paths |-> Absent]
    /\ temp_files = <<>>
    /\ cleanup_lock = "free"
    /\ fpc = [t \in FileThreads |-> IF t = Cleaner THEN "sleep" ELSE "idle"]
    /\ flocal = [t \in FileThreads |-> NoLocal]
    /\ next_temp = 1
    /\ last_removal = NoRemoval
    /\ qr_dir = [name \in QrNames |-> Absent]

\* ---- bulk QR export (main.py, get_group_qrcodes_endpoint) ----
MAX_STUDENTS_PER_GROUP == 500
\* len(students) of the group asked for
GroupSizes == 0..MaxExportSize \cup {MAX_STUDENTS_PER_GROUP + 1}
NoZip == <<"no archive">>
NoExportResponse == [status |-> 0, detail |-> ""]
NoArchive == [write |-> "", size |-> 0, integrity |-> ""]
NoExport == [pc |-> "idle", students |-> 0, i |-> 0, outcomes |-> <<>>,
             names |-> <<>>, valid_qr_files |-> <<>>, filenames |-> <<>>,
             zip |-> NoZip, zip_names |-> <<>>, zip_file |-> "none",
             archive |-> NoArchive, response |-> NoExportResponse]
\* len(students) > config.MAX_STUDENTS_PER_GROUP
GroupTooLargeOffByOne(n) == n > MAX_STUDENTS_PER_GROUP + 1
GroupTooLarge(n) == n > MAX_STUDENTS_PER_GROUP
\* generate_student_qr: the image is saved and its path returned ("saved");
\* an exception removes what is at the path and None is returned ("error");
\* no exception, but the self-check finds no file ("missing") or a file of
\* size 0 ("empty"), and None is returned
GenerateOutcomes == {"saved", "error", "missing", "empty"}
AfterGenerate(dir, s, outcome) ==
    IF StudentQr(s) \notin DOMAIN dir THEN dir
    ELSE [dir EXCEPT ![StudentQr(s)] =
             CASE outcome = "saved" -> [kind |-> "file", mtime |-> time]
               [] outcome = "empty" -> [kind |-> "empty file", mtime |-> time]
               [] OTHER -> Absent]
\* if qr_path and os.path.exists(qr_path): valid_qr_files.append(...)
CollectedDropsBatch(valid, s, outcome) ==
    IF outcome = "saved" THEN Append(valid, s) ELSE <<>>
Collected(valid, s, outcome) ==
    IF outcome = "saved" THEN Append(valid, s) ELSE valid
\* for qr_path, filename in valid_qr_files: if os.path.exists(qr_path):
\* zip_file.write(qr_path, filename)
RECURSIVE Zipped(_, _)
Zipped(valid, dir) ==
    IF valid = <<>> THEN <<>>
    ELSE (IF StudentQr(Head(valid)) \in DOMAIN dir /\ dir[StudentQr(Head(valid))].kind = "none"
          THEN <<>> ELSE <<Head(valid)>>) \o Zipped(Tail(valid), dir)
\* the same positions of valid_qr_files, for the names inside the archive
RECURSIVE ZippedNames(_, _, _)
ZippedNames(valid, filenames, dir) ==
    IF valid = <<>> THEN <<>>
    ELSE (IF StudentQr(Head(valid)) \in DOMAIN dir /\ dir[StudentQr(Head(valid))].kind = "none"
          THEN <<>> ELSE <<Head(filenames)>>)
         \o ZippedNames(Tail(valid), Tail(filenames), dir)

\* create_safe_filename (utils/file_manager.py); a string is the sequence of
\* its characters
safe_chars ==
    {"a", "b", "c", "d", "e", "f", "g", "h", "i", "j", "k", "l", "m",
     "n", "o", "p", "q", "r", "s", "t", "u", "v", "w", "x", "y", "z",
     "A", "B", "C", "D", "E", "F", "G", "H", "I", "J", "K", "L", "M",
     "N", "O", "P", "Q", "R", "S", "T", "U", "V", "W", "X", "Y", "Z",
     "0", "1", "2", "3", "4", "5", "6", "7", "8", "9", "-", "_", "."}
\* ''.join(c if c in safe_chars else '_' for c in filename)
ReplaceUnsafe(filename) ==
    [k \in DOMAIN filename |-> IF filename[k] \in safe_chars THEN filename[k] ELSE "_"]
\* str.replace('__', '_'): one pass from the left over non-overlapping pairs
RECURSIVE ReplacePairs(_)
ReplacePairs(str) ==
    IF Len(str) < 2 THEN str
    ELSE IF str[1] = "_" /\ str[2] = "_"
         THEN <<"_">> \o ReplacePairs(SubSeq(str, 3, Len(str)))
         ELSE <<str[1]>> \o ReplacePairs(Tail(str))
HasPair(str) == \E k \in 1..(Len(str) - 1) : str[k] = "_" /\ str[k + 1] = "_"
\* while '__' in safe_filename: safe_filename = safe_filename.replace('__', '_')
RECURSIVE CollapseUnderscores(_)
CollapseUnderscores(str) ==
    IF HasPair(str) THEN CollapseUnderscores(ReplacePairs(str)) ELSE str
\* str.strip('_.')
RECURSIVE LStrip(_)
LStrip(str) ==
    IF str # <<>> /\ Head(str) \in {"_", "."} THEN LStrip(Tail(str)) ELSE str
RECURSIVE RStrip(_)
RStrip(str) ==
    IF str # <<>> /\ str[Len(str)] \in {"_", "."}
    THEN RStrip(SubSeq(str, 1, Len(str) - 1)) ELSE str
Strip(str) == RStrip(LStrip(str))
create_safe_filename(filename) ==
    LET safe_filename == Strip(CollapseUnderscores(ReplaceUnsafe(filename)))
    IN  IF safe_filename = <<>> THEN <<"f", "i", "l", "e">> ELSE safe_filename
\* f"{student_name}_QR.png"
QrFilename(student_name) == student_name \o <<"_", "Q", "R", ".", "p", "n", "g">>
\* the names students of a group can have (add_student stores name.strip())
StudentNames == {<<"a", " ", "b">>, <<"a", "_", "b">>, <<"b">>, <<".", "b">>}

\* the archive stage: what writing the archive does, the size of the written
\* archive in bytes, and what the integrity test finds
MAX_FILE_SIZE_MB == 50
BytesPerMB == 1024 * 1024
WriteOutcomes == {"written", "raises", "vanished"}
ArchiveSizes == {0, 1, MAX_FILE_SIZE_MB * BytesPerMB, MAX_FILE_SIZE_MB * BytesPerMB + 1}
\* ZipFile(zip_path, 'r') or testzip() raises; testzip() returns the name of
\* the first bad entry; testzip() returns None
IntegrityOutcomes == {"passes", "raises", "bad entry"}
\* validate_file_size: file_size_mb > max_size_mb gives False
validate_file_size(size_bytes) == ~(size_bytes > MAX_FILE_SIZE_MB * BytesPerMB)
\* str(e) of the HTTPException raised inside the try block
StrOfHTTPException(status_code, detail) ==
    IF exception_str = "empty" THEN "" ELSE status_code \o ": " \o detail
\* except Exception as e: ... raise HTTPException(500, "Failed to create ZIP file: {e}")
FailedToCreate(e) ==
    [status |-> 500, detail |-> "Failed to create ZIP file: " \o e]
\* the answer of the try block of get_group_qrcodes_endpoint and what is left
\* of the archive file
ArchiveStage(write, size_bytes, integrity) ==
    CASE write = "raises" ->
            [zip_file |-> "removed", response |-> FailedToCreate("write error")]
      [] write = "vanished" ->
            [zip_file |-> "removed",
             response |-> FailedToCreate(
                 StrOfHTTPException("500", "Failed to create ZIP file"))]
      [] write = "written" /\ ~validate_file_size(size_bytes) ->
            [zip_file |-> "removed",
             response |-> FailedToCreate(
                 StrOfHTTPException("413", "ZIP file too large"))]
      [] write = "written" /\ validate_file_size(size_bytes) /\ size_bytes = 0 ->
            [zip_file |-> "removed",
             response |-> FailedToCreate(
                 StrOfHTTPException("500", "Generated ZIP file is empty"))]
      [] write = "written" /\ validate_file_size(size_bytes) /\ size_bytes # 0
            /\ integrity = "raises" ->
            [zip_file |-> "removed",
             response |-> FailedToCreate(
                 StrOfHTTPException("500", "ZIP file is corrupted"))]
      [] OTHER ->
            [zip_file |-> "exists", response |-> [status |-> 200, detail |-> ""]]

\* ---- teachers: registration and login (db/teacher_auth.py, main.py) ----
\* a string the code strips is the sequence of its characters
RECURSIVE lstrip(_)
lstrip(str) == IF str # <<>> /\ Head(str) = " " THEN lstrip(Tail(str)) ELSE str
RECURSIVE rstrip(_)
rstrip(str) ==
    IF str # <<>> /\ str[Len(str)] = " " THEN rstrip(SubSeq(str, 1, Len(str) - 1)) ELSE str
\* str.strip()
strip(str) == rstrip(lstrip(str))
\* usernames and passwords a client submits
UsernameInputs ==
    {<<"a", "n", "n">>, <<"a", "n", "n", " ">>, <<"A", "n", "n">>, <<"a", "l">>}
PasswordInputs == {"secret1", "hunter22", "short", ""}
\* hash_password: pwd_context.hash(password); the stored text of a digest is
\* no password a client of the model submits
hash_password(password) == [scheme |-> "bcrypt", of |-> password]
\* a row written before passwords were hashed holds the password itself
PlainText(password) == [scheme |-> "plain", of |-> password]
StoredText(stored) ==
    IF stored.scheme = "plain" THEN stored.of ELSE "$2b$12$" \o stored.of
\* pwd_context.verify(plain_password, stored_password): True or False for a
\* bcrypt digest; a stored value that is no digest raises UnknownHashError
pwd_context_verify(plain_password, stored) ==
    IF stored.scheme = "bcrypt"
    THEN (IF plain_password = stored.of THEN "True" ELSE "False")
    ELSE "raises"
verify_password(plain_password, stored) ==
    IF plain_password = "" \/ StoredText(stored) = "" THEN FALSE
    ELSE LET verified == pwd_context_verify(plain_password, stored)
         IN  IF verified # "raises" THEN verified = "True"
             ELSE plain_password = StoredText(stored)
\* SELECT password FROM teachers WHERE username = ?
TeacherRows(username) == {row \in teachers : row.username = username}
teacher_exists(username, password) ==
    IF username = <<>> \/ password = "" THEN FALSE
    ELSE \E row \in TeacherRows(username) : verify_password(password, row.password)
\* SELECT 1 FROM teachers WHERE username = ?
username_exists(username) ==
    IF username = <<>> THEN FALSE ELSE TeacherRows(strip(username)) # {}
NoRegister == [username |-> <<>>, password |-> "", status |-> 0, detail |-> ""]
NoLogin == [username |-> <<>>, password |-> "", status |-> 0, turn |-> FALSE]

\* ---- the QR payload (db/student.py, generate_student_qr) ----
MaxQrStudentId == 120
DigitWithoutNine(n) == <<"0", "1", "2", "3", "4", "5", "6", "7", "8", "0">>[n + 1]
Digit(n) == <<"0", "1", "2", "3", "4", "5", "6", "7", "8", "9">>[n + 1]
\* str(student_id) for a positive integer
RECURSIVE str(_)
str(n) == IF n < 10 THEN <<Digit(n)>> ELSE Append(str(n \div 10), Digit(n % 10))
\* decode(raw_value): the raw scanned string parsed as an integer; -1 stands
\* for the FormatError of a string that is no number
FormatError == 0 - 1
DigitValue(c) ==
    CASE c = "0" -> 0 [] c = "1" -> 1 [] c = "2" -> 2 [] c = "3" -> 3 [] c = "4" -> 4
      [] c = "5" -> 5 [] c = "6" -> 6 [] c = "7" -> 7 [] c = "8" -> 8 [] c = "9" -> 9
      [] OTHER -> FormatError
RECURSIVE decode(_)
decode(raw_value) ==
    IF raw_value = <<>> THEN FormatError
    ELSE LET last == DigitValue(raw_value[Len(raw_value)])
             front == SubSeq(raw_value, 1, Len(raw_value) - 1)
         IN  IF last = FormatError THEN FormatError
             ELSE IF front = <<>> THEN last
             ELSE IF decode(front) = FormatError THEN FormatError
             ELSE 10 * decode(front) + last
NoScan == [student_id |-> 0, payload |-> <<>>, decoded |-> 0, pc |-> "idle"]

UserInit ==
    /\ rpc = [t \in Threads |-> "idle"]
    /\ rlocal = [t \in Threads |-> NoRegister]
    /\ last_login = NoLogin
    /\ qr_scan = NoScan

SideInitButTeachers ==
    /\ FileInit
    /\ export = NoExport
    /\ last_optional = NoOptional
    /\ session = NoSession
    /\ exams = {}
    /\ next_exam_id = 1
    /\ last_delete = NoDelete
    /\ UserInit

SideInit ==
    /\ SideInitButTeachers
    /\ teachers = {}

TokenInit ==
    /\ now = 0
    /\ tokens = {}
    /\ issued = {}
    /\ last_verify = NoVerify
    /\ exception_str = "status_code: detail"
    /\ SideInit

\* the server starts with either Starlette
InitToken ==
    /\ groups = {}
    /\ students = {}
    /\ attendance = EmptyBag
    /\ next_group_id = 1
    /\ next_student_id = 1
    /\ pc = [t \in Threads |-> "idle"]
    /\ call = [t \in Threads |-> NoCall]
    /\ response = [t \in Threads |-> NoResponse]
    /\ audit = [t \in Threads |-> "none"]
    /\ recorded_present = [s \in 1..MaxStudentId |-> 0]
    /\ now = 0
    /\ tokens = {}
    /\ issued = {}
    /\ exception_str \in ExceptionStrs
    /\ SideInit
    /\ last_verify = NoVerify

\* ---- state after construction: module load creates empty tables ----
Init ==
    /\ groups = {}
    /\ students = {}
    /\ attendance = EmptyBag
    /\ next_group_id = 1
    /\ next_student_id = 1
    /\ pc = [t \in Threads |-> "idle"]
    /\ call = [t \in Threads |-> NoCall]
    /\ response = [t \in Threads |-> NoResponse]
    /\ audit = [t \in Threads |-> "none"]
    /\ recorded_present = [s \in 1..MaxStudentId |-> 0]
    /\ TokenInit

\* ---- group and student rows ----
create_group ==
    /\ next_group_id <= MaxGroupId
    /\ groups' = groups \cup {next_group_id}
    /\ next_group_id' = next_group_id + 1
    /\ UNCHANGED <<students, attendance, next_student_id,
                   pc, call, response, audit, recorded_present>>
    /\ UNCHANGED tokvars
    /\ UNCHANGED sidevars

\* INSERT INTO students (name, group_id): the row starts with
\* attendance_count 0; students.group_id REFERENCES groups
add_student(g) ==
    /\ g # 0
    /\ GroupExists(g)
    /\ next_student_id <= MaxStudentId
    /\ students' = students \cup
          {[student_id |-> next_student_id, group_id |-> g, attendance_count |-> 0]}
    /\ next_student_id' = next_student_id + 1
    /\ UNCHANGED <<groups, attendance, next_group_id,
                   pc, call, response, audit, recorded_present>>
    /\ UNCHANGED tokvars
    /\ UNCHANGED sidevars

\* DELETE FROM students WHERE student_id = ?; attendance.student_id is
\* ON DELETE CASCADE
remove_student(s) ==
    /\ s # 0
    /\ StudentExists(s)
    /\ students' = {r \in students : r.student_id # s}
    /\ attendance' = LET P(r) == r.student_id # s IN Select(P)
    /\ recorded_present' = [recorded_present EXCEPT ![s] = 0]
    /\ UNCHANGED <<groups, next_group_id, next_student_id,
                   pc, call, response, audit>>
    /\ UNCHANGED tokvars
    /\ UNCHANGED sidevars

\* ---- delete_group_by_id: four DELETE statements in one transaction ----
Tables == [groups |-> groups, students |-> students, attendance |-> attendance,
           exams |-> exams]
Statements == <<"attendance", "exams", "students", "groups">>
SelectFrom(bag, P(_)) == [r \in {x \in DOMAIN bag : P(x)} |-> bag[r]]

\* one DELETE ... WHERE group_id = g on the connection's view of the tables;
\* deleting a student row deletes its attendance rows (ON DELETE CASCADE)
Execute(db, statement, g) ==
    LET gone == {r.student_id : r \in {x \in db.students : x.group_id = g}}
        OfOtherGroup(r) == r.group_id # g
        OfRemainingStudent(r) == r.student_id \notin gone
    IN CASE statement = "attendance" ->
              [db EXCEPT !.attendance = SelectFrom(db.attendance, OfOtherGroup)]
         [] statement = "exams" ->
              [db EXCEPT !.exams = {e \in db.exams : e.group_id # g}]
         [] statement = "students" ->
              [db EXCEPT !.students = {r \in db.students : r.group_id # g},
                         !.attendance = SelectFrom(db.attendance, OfRemainingStudent)]
         [] statement = "groups" ->
              [db EXCEPT !.groups = db.groups \ {g}]

RECURSIVE AfterStatements(_, _, _)
AfterStatements(db, g, k) ==
    IF k = 0 THEN db
    ELSE Execute(AfterStatements(db, g, k - 1), Statements[k], g)

\* get_connection: an exception in the with block rolls the connection back
KeepWorking(before, working) == working
Rollback(before, working) == before

\* the tables after delete_group_by_id(g) in which statement fail_at raised
\* (0: none did, the transaction committed)
DeleteGroup(g, fail_at) ==
    LET done == IF fail_at = 0
                THEN AfterStatements(Tables, g, Len(Statements))
                ELSE Rollback(Tables, AfterStatements(Tables, g, fail_at - 1))
    IN /\ groups' = done.groups
       /\ students' = done.students
       /\ attendance' = done.attendance
       /\ exams' = done.exams
       /\ recorded_present' =
             [s \in 1..MaxStudentId |->
                 IF \E r \in done.students : r.student_id = s
                 THEN recorded_present[s] ELSE 0]

\* delete_group_by_id, every statement succeeding
delete_group_by_id(g) ==
    /\ g # 0
    /\ DeleteGroup(g, 0)
    /\ UNCHANGED <<next_group_id, next_student_id,
                   pc, call, response, audit>>
    /\ UNCHANGED tokvars
    /\ UNCHANGED <<authvars, next_exam_id, last_delete>>
    /\ UNCHANGED iovars
    /\ UNCHANGED uservars

\* DELETE /groups/{group_id}: delete_group_by_id with its outcome, a
\* statement of it possibly raising; the row counts are the cursor.rowcount
\* values the function logs
delete_group_endpoint(g, fail_at) ==
    /\ IF g = 0
       THEN /\ UNCHANGED <<groups, students, attendance, exams, recorded_present>>
            /\ last_delete' = [NoDelete EXCEPT !.turn = ~last_delete.turn]
       ELSE /\ DeleteGroup(g, fail_at)
            /\ last_delete' =
                  [group_id |-> g,
                   success |-> fail_at = 0 /\ g \in groups,
                   fail_at |-> fail_at,
                   turn |-> ~last_delete.turn,
                   attendance_deleted |->
                       IF fail_at = 0
                       THEN BagCardinality(attendance)
                               - BagCardinality(AfterStatements(Tables, g, 1).attendance)
                       ELSE 0,
                   exams_deleted |->
                       IF fail_at = 0
                       THEN Cardinality({e \in exams : e.group_id = g}) ELSE 0,
                   students_deleted |->
                       IF fail_at = 0
                       THEN Cardinality({r \in students : r.group_id = g}) ELSE 0]
    /\ UNCHANGED <<next_group_id, next_student_id,
                   pc, call, response, audit>>
    /\ UNCHANGED tokvars
    /\ UNCHANGED <<authvars, next_exam_id>>
    /\ UNCHANGED iovars
    /\ UNCHANGED uservars

\* POST /groups/{group_id}/exams -> create_exam: the exams table has no
\* foreign key, any group_id is stored
create_exam(g) ==
    /\ next_exam_id <= MaxExams
    /\ exams' = exams \cup {[exam_id |-> next_exam_id, group_id |-> g]}
    /\ next_exam_id' = next_exam_id + 1
    /\ UNCHANGED attvars
    /\ UNCHANGED tokvars
    /\ UNCHANGED <<authvars, last_delete>>
    /\ UNCHANGED iovars
    /\ UNCHANGED uservars

\* ---- record_attendance, statement by statement ----
\* what happens to thread t once record_attendance has returned ret:
\* scan_attendance answers; mark_absent_students counts and goes on with the
\* next id, and answers success_count > 0 after the last one
AfterRecord(t, ret, why) ==
    LET c == call[t]
        cnt == c.success_count + (IF ret THEN 1 ELSE 0)
        rest == SkipRejected(c.ids, c.group_id, c.date)
    IN
    /\ recorded_present' =
          IF ret /\ c.present /\ StudentExists(c.student_id)
          THEN [recorded_present EXCEPT ![c.student_id] = recorded_present[c.student_id] + 1]
          ELSE recorded_present
    /\ IF c.kind = "scan"
       THEN /\ pc' = [pc EXCEPT ![t] = "reply"]
            /\ UNCHANGED call
            /\ response' = [response EXCEPT ![t] = ScanResponse(ret)]
            /\ audit' = [audit EXCEPT ![t] = why]
       ELSE IF rest = <<>>
       THEN /\ pc' = [pc EXCEPT ![t] = "reply"]
            /\ call' = [call EXCEPT ![t] = [c EXCEPT !.ids = <<>>, !.success_count = cnt]]
            /\ response' = [response EXCEPT ![t] = BatchResponse(cnt > 0, c.n_ids)]
            /\ audit' = [audit EXCEPT ![t] = "batch"]
       ELSE /\ pc' = [pc EXCEPT ![t] = "lookup"]
            /\ call' = [call EXCEPT ![t] =
                           [c EXCEPT !.student_id = Head(rest), !.ids = Tail(rest),
                                     !.success_count = cnt]]
            /\ UNCHANGED <<response, audit>>

\* SELECT attendance_id FROM attendance WHERE student_id = ? AND date = ?
RecordLookup(t) ==
    /\ pc[t] = "lookup"
    /\ IF Existing(call[t].student_id, call[t].date)
       THEN AfterRecord(t, FALSE, "existing")
       ELSE /\ pc' = [pc EXCEPT ![t] = "insert"]
            /\ UNCHANGED <<call, response, audit, recorded_present>>
    /\ UNCHANGED <<groups, students, attendance, next_group_id, next_student_id>>
    /\ UNCHANGED tokvars
    /\ UNCHANGED sidevars

\* INSERT INTO attendance (student_id, group_id, date, present); a constraint
\* violation raises, is rolled back and record_attendance returns False
RecordInsert(t) ==
    /\ pc[t] = "insert"
    /\ LET c == call[t] IN
       IF UniqueViolation(c.student_id, c.group_id, c.date)
       THEN /\ AfterRecord(t, FALSE, "unique")
            /\ UNCHANGED attendance
       ELSE IF ForeignKeyViolation(c.student_id, c.group_id)
       THEN /\ AfterRecord(t, FALSE, "foreign_key")
            /\ UNCHANGED attendance
       ELSE /\ BagCardinality(attendance) < MaxRows
            /\ attendance' = attendance (+) SetToBag(
                  {[student_id |-> c.student_id, group_id |-> c.group_id,
                    date |-> c.date, present |-> IF c.present THEN 1 ELSE 0]})
            /\ IF CountsTowardAttendance(c.present)
               THEN /\ pc' = [pc EXCEPT ![t] = "update"]
                    /\ UNCHANGED <<call, response, audit, recorded_present>>
               ELSE AfterRecord(t, TRUE, "inserted")
    /\ UNCHANGED <<groups, students, next_group_id, next_student_id>>
    /\ UNCHANGED tokvars
    /\ UNCHANGED sidevars

\* UPDATE students SET attendance_count = attendance_count + 1
\* WHERE student_id = ?  (no row: nothing changes, no error)
RecordUpdate(t) ==
    /\ pc[t] = "update"
    /\ LET s == call[t].student_id IN
       students' = {IF r.student_id = s
                    THEN [r EXCEPT !.attendance_count = Increment(r.attendance_count)]
                    ELSE r : r \in students}
    /\ AfterRecord(t, TRUE, "inserted")
    /\ UNCHANGED <<groups, attendance, next_group_id, next_student_id>>
    /\ UNCHANGED tokvars
    /\ UNCHANGED sidevars

\* ---- endpoints ----
\* POST /attendance/scan
scan_attendance(t, s, g, d, p) ==
    /\ pc[t] = "idle"
    /\ call' = [call EXCEPT ![t] =
                   [kind |-> "scan", student_id |-> s, group_id |-> g, date |-> d,
                    present |-> p, ids |-> <<>>, n_ids |-> 0, success_count |-> 0]]
    /\ IF MissingFields(s, g, d)
       THEN /\ pc' = [pc EXCEPT ![t] = "reply"]
            /\ response' = [response EXCEPT ![t] = BadRequest]
            /\ audit' = [audit EXCEPT ![t] = "rejected"]
       ELSE /\ pc' = [pc EXCEPT ![t] = "lookup"]
            /\ UNCHANGED <<response, audit>>
    /\ UNCHANGED <<groups, students, attendance, next_group_id, next_student_id,
                   recorded_present>>
    /\ UNCHANGED tokvars
    /\ UNCHANGED sidevars

\* POST /groups/{group_id}/attendance/absent -> mark_absent_students
mark_absent_students(t, g, d, ids) ==
    /\ pc[t] = "idle"
    /\ LET first == SkipRejected(ids, g, d)
           req == [kind |-> "batch", student_id |-> 0, group_id |-> g, date |-> d,
                   present |-> FALSE, ids |-> <<>>, n_ids |-> Len(ids),
                   success_count |-> 0]
       IN
       IF MissingBatchFields(d, ids)
       THEN /\ pc' = [pc EXCEPT ![t] = "reply"]
            /\ call' = [call EXCEPT ![t] = req]
            /\ response' = [response EXCEPT ![t] = BadRequest]
            /\ audit' = [audit EXCEPT ![t] = "rejected"]
       ELSE IF ~all(<<g, d>>) \/ first = <<>>
       THEN /\ pc' = [pc EXCEPT ![t] = "reply"]
            /\ call' = [call EXCEPT ![t] = req]
            /\ response' = [response EXCEPT ![t] = BatchResponse(FALSE, Len(ids))]
            /\ audit' = [audit EXCEPT ![t] = "batch"]
       ELSE /\ pc' = [pc EXCEPT ![t] = "lookup"]
            /\ call' = [call EXCEPT ![t] =
                           [req EXCEPT !.student_id = Head(first), !.ids = Tail(first)]]
            /\ UNCHANGED <<response, audit>>
    /\ UNCHANGED <<groups, students, attendance, next_group_id, next_student_id,
                   recorded_present>>
    /\ UNCHANGED tokvars
    /\ UNCHANGED sidevars

\* the response leaves the handler; the thread serves the next request
Reply(t) ==
    /\ pc[t] = "reply"
    /\ pc' = [pc EXCEPT ![t] = "idle"]
    /\ call' = [call EXCEPT ![t] = NoCall]
    /\ response' = [response EXCEPT ![t] = NoResponse]
    /\ audit' = [audit EXCEPT ![t] = "none"]
    /\ UNCHANGED <<groups, students, attendance, next_group_id, next_student_id,
                   recorded_present>>
    /\ UNCHANGED tokvars
    /\ UNCHANGED sidevars

\* ---- sequential specification: one request thread, every operation ----
Next ==
    \/ create_group
    \/ \E g \in GroupArgs : add_student(g)
    \/ \E s \in StudentArgs : remove_student(s)
    \/ \E g \in GroupArgs : delete_group_by_id(g)
    \/ \E t \in Workers, s \in StudentArgs, g \in GroupArgs, d \in DateArgs, p \in BOOLEAN :
          scan_attendance(t, s, g, d, p)
    \/ \E t \in Workers, g \in GroupArgs, d \in DateArgs, ids \in BatchLists :
          mark_absent_students(t, g, d, ids)
    \/ \E t \in Workers : RecordLookup(t)
    \/ \E t \in Workers : RecordInsert(t)
    \/ \E t \in Workers : RecordUpdate(t)
    \/ \E t \in Workers : Reply(t)

Spec == Init /\ [][Next]_vars

\* ---- the same operations strictly one after another ----
Quiet == \A t \in Threads : pc[t] = "idle"

NextSeq ==
    \/ Quiet /\ create_group
    \/ \E g \in GroupArgs : Quiet /\ add_student(g)
    \/ \E s \in StudentArgs : Quiet /\ remove_student(s)
    \/ \E g \in GroupArgs : Quiet /\ delete_group_by_id(g)
    \/ \E t \in Workers, s \in StudentArgs, g \in GroupArgs, d \in DateArgs, p \in BOOLEAN :
          scan_attendance(t, s, g, d, p)
    \/ \E t \in Workers, g \in GroupArgs, d \in DateArgs, ids \in BatchLists :
          mark_absent_students(t, g, d, ids)
    \/ \E t \in Workers : RecordLookup(t)
    \/ \E t \in Workers : RecordInsert(t)
    \/ \E t \in Workers : RecordUpdate(t)
    \/ \E t \in Workers : Reply(t)

SpecSeq == Init /\ [][NextSeq]_vars

\* ---- concurrent specification: two request threads, one request each, ----
\* ---- against a store in which every group and student exists; the     ----
\* ---- two responses stay in view                                       ----
InitConc ==
    /\ groups = 1..MaxGroupId
    /\ students = {[student_id |-> i, group_id |-> ((i - 1) % MaxGroupId) + 1,
                    attendance_count |-> 0] : i \in 1..MaxStudentId}
    /\ attendance = EmptyBag
    /\ next_group_id = MaxGroupId + 1
    /\ next_student_id = MaxStudentId + 1
    /\ pc = [t \in Threads |-> "idle"]
    /\ call = [t \in Threads |-> NoCall]
    /\ response = [t \in Threads |-> NoResponse]
    /\ audit = [t \in Threads |-> "none"]
    /\ recorded_present = [s \in 1..MaxStudentId |-> 0]
    /\ TokenInit

NextConc ==
    \/ \E t \in Threads, s \in StudentArgs, g \in GroupArgs, d \in DateArgs, p \in BOOLEAN :
          scan_attendance(t, s, g, d, p)
    \/ \E t \in Threads, g \in GroupArgs, d \in DateArgs, ids \in BatchLists :
          mark_absent_students(t, g, d, ids)
    \/ \E t \in Threads : RecordLookup(t)
    \/ \E t \in Threads : RecordInsert(t)
    \/ \E t \in Threads : RecordUpdate(t)

SpecConc == InitConc /\ [][NextConc]_vars

\* ---- session tokens: operations ----
\* a login or registration issues a token for username
create_access_token(username, additional_claims) ==
    /\ Cardinality(tokens) < MaxTokens
    /\ LET token == create_access_token_value(username, additional_claims, now)
       IN /\ tokens' = tokens \cup {token}
          /\ issued' = issued \cup {[token |-> token, username |-> username,
                                    additional_claims |-> additional_claims]}
    /\ UNCHANGED <<now, last_verify>>
    /\ UNCHANGED attvars
    /\ UNCHANGED sidevars

\* a client builds a token of its own: any username or none, any type or
\* none, an expiry around the current time, signed with the server key or not
ClientPayloads ==
    {Update(Update(u, ty), [exp |-> e]) :
        u \in {NoClaims, [username |-> "alice"]},
        ty \in {NoClaims, [type |-> AccessToken], [type |-> "refresh"]},
        e \in {x \in {now - ClockStep, now, now + ClockStep} : x >= 0}}

ClientToken(payload, key) ==
    /\ Cardinality(tokens) < MaxTokens
    /\ tokens' = tokens \cup {[payload |-> payload, key |-> key]}
    /\ UNCHANGED <<now, issued, last_verify>>
    /\ UNCHANGED attvars
    /\ UNCHANGED sidevars

\* a request presents a token: get_current_teacher -> verify_token
VerifyToken(token) ==
    /\ last_verify' = [token |-> token, result |-> verify_token(token, now)]
    /\ UNCHANGED <<now, tokens, issued>>
    /\ UNCHANGED attvars
    /\ UNCHANGED sidevars

\* time passes; the result of an earlier verification is history
Tick ==
    /\ now + ClockStep <= MaxTicks * ClockStep
    /\ now' = now + ClockStep
    /\ last_verify' = NoVerify
    /\ UNCHANGED <<tokens, issued>>
    /\ UNCHANGED attvars
    /\ UNCHANGED sidevars

NextToken ==
    \/ \E u \in Usernames, a \in AdditionalClaims : create_access_token(u, a)
    \/ \E p \in ClientPayloads, k \in {ServerKey, "another key"} : ClientToken(p, k)
    \/ \E token \in tokens : VerifyToken(token)
    \/ Tick

SpecToken == InitToken /\ [][NextToken]_vars

\* ---- groups with students, exams and attendance, and their deletion ----
NextGroup ==
    \/ \E g \in GroupArgs : create_exam(g)
    \/ \E t \in Workers, s \in StudentArgs, g \in GroupArgs :
          scan_attendance(t, s, g, MaxDate, TRUE)
    \/ \E t \in Workers : RecordLookup(t)
    \/ \E t \in Workers : RecordInsert(t)
    \/ \E t \in Workers : RecordUpdate(t)
    \/ \E t \in Workers : Reply(t)
    \/ \E g \in GroupArgs, fail_at \in 0..Len(Statements) : delete_group_endpoint(g, fail_at)

SpecGroup == InitConc /\ [][NextGroup]_vars

\* ---- FileManager: operations, statement by statement around the lock ----
\* what every file-manager step leaves alone
FileFrame ==
    /\ UNCHANGED attvars
    /\ UNCHANGED tokvars
    /\ UNCHANGED <<authvars, examvars, qr_dir, export>>
    /\ UNCHANGED uservars

\* create_temp_file / create_temp_directory, up to the with block: mkstemp or
\* mkdtemp makes the path
create_temp(t, kind) ==
    /\ fpc[t] = "idle"
    /\ next_temp <= MaxTempFiles
    /\ LET path == TempPath(next_temp)
       IN /\ fs' = [fs EXCEPT ![path] = [kind |-> kind, mtime |-> time]]
          /\ flocal' = [flocal EXCEPT ![t] = [NoLocal EXCEPT !.path = path]]
    /\ next_temp' = next_temp + 1
    /\ fpc' = [fpc EXCEPT ![t] = "track"]
    /\ UNCHANGED <<temp_files, cleanup_lock, last_removal>>
    /\ FileFrame

\* with self.cleanup_lock: self.temp_files.append(temp_path)
create_temp_track(t) ==
    /\ fpc[t] = "track"
    /\ cleanup_lock = "free"
    /\ temp_files' = Append(temp_files, flocal[t].path)
    /\ fpc' = [fpc EXCEPT ![t] = "idle"]
    /\ flocal' = [flocal EXCEPT ![t] = NoLocal]
    /\ UNCHANGED <<fs, cleanup_lock, next_temp, last_removal>>
    /\ FileFrame

\* a caller writes the file it keeps inside a temporary directory: a new
\* entry also changes the directory's modification time, a rewrite does not
write_inside(path) ==
    /\ IsDir(path)
    /\ fs[Inside(path)].mtime # time \/ ~Exists(Inside(path))
    /\ fs' = [fs EXCEPT ![Inside(path)] = [kind |-> "file", mtime |-> time],
                        ![path] = IF Exists(Inside(path)) THEN @
                                  ELSE [kind |-> "dir", mtime |-> time]]
    /\ UNCHANGED <<temp_files, cleanup_lock, fpc, flocal, next_temp, last_removal>>
    /\ FileFrame

\* cleanup_file, up to the with block: the path is removed if it exists
RemovePath(t, path, by) ==
    /\ fs' = AfterRemove(path)
    /\ last_removal' = [by |-> by, paths |-> Removed(path), turn |-> ~last_removal.turn]
    /\ fpc' = [fpc EXCEPT ![t] = "untrack"]

\* a request calls cleanup_file(path)
cleanup_file(t, path) ==
    /\ t \in RequestThreads
    /\ fpc[t] = "idle"
    /\ Exists(path)
    /\ RemovePath(t, path, "cleanup_file")
    /\ flocal' = [flocal EXCEPT ![t] = [NoLocal EXCEPT !.path = path]]
    /\ UNCHANGED <<temp_files, cleanup_lock, next_temp>>
    /\ FileFrame

\* cleanup_file: with self.cleanup_lock: remove the path from temp_files,
\* return True; inside cleanup_old_files the caller then appends the path to
\* files_to_remove
cleanup_file_untrack(t) ==
    /\ fpc[t] = "untrack"
    /\ cleanup_lock = "free"
    /\ temp_files' = ListRemove(temp_files, flocal[t].path)
    /\ IF t = Cleaner
       THEN /\ fpc' = [fpc EXCEPT ![t] = "scan"]
            /\ flocal' = [flocal EXCEPT ![t].files_to_remove =
                                            Append(@, flocal[t].path)]
       ELSE /\ fpc' = [fpc EXCEPT ![t] = "idle"]
            /\ flocal' = [flocal EXCEPT ![t] = NoLocal]
    /\ UNCHANGED <<fs, cleanup_lock, next_temp, last_removal>>
    /\ FileFrame

\* cleanup_worker wakes up: cleanup_old_files reads the clock
cleanup_old_files ==
    /\ fpc[Cleaner] = "sleep"
    /\ fpc' = [fpc EXCEPT ![Cleaner] = "acquire"]
    /\ flocal' = [flocal EXCEPT ![Cleaner] = [NoLocal EXCEPT !.current_time = time]]
    /\ UNCHANGED <<fs, temp_files, cleanup_lock, next_temp, last_removal>>
    /\ FileFrame

\* with self.cleanup_lock: the loop runs over a copy of temp_files
cleanup_old_files_acquire ==
    /\ fpc[Cleaner] = "acquire"
    /\ cleanup_lock = "free"
    /\ cleanup_lock' = Cleaner
    /\ fpc' = [fpc EXCEPT ![Cleaner] = "scan"]
    /\ flocal' = [flocal EXCEPT ![Cleaner].todo = temp_files]
    /\ UNCHANGED <<fs, temp_files, next_temp, last_removal>>
    /\ FileFrame

\* one iteration of the loop
cleanup_old_files_scan ==
    /\ fpc[Cleaner] = "scan"
    /\ flocal[Cleaner].todo # <<>>
    /\ LET path == Head(flocal[Cleaner].todo)
           rest == [flocal[Cleaner] EXCEPT !.todo = Tail(@)]
       IN IF ~Exists(path)
          THEN /\ flocal' = [flocal EXCEPT ![Cleaner] =
                                [rest EXCEPT !.files_to_remove = Append(@, path)]]
               /\ UNCHANGED <<fs, fpc, last_removal>>
          ELSE IF Old(flocal[Cleaner].current_time - fs[path].mtime)
          THEN /\ RemovePath(Cleaner, path, "cleanup_old_files")
               /\ flocal' = [flocal EXCEPT ![Cleaner] = [rest EXCEPT !.path = path]]
          ELSE /\ flocal' = [flocal EXCEPT ![Cleaner] = rest]
               /\ UNCHANGED <<fs, fpc, last_removal>>
    /\ UNCHANGED <<temp_files, cleanup_lock, next_temp>>
    /\ FileFrame

\* after the loop: files_to_remove leave temp_files, the lock is released
cleanup_old_files_finish ==
    /\ fpc[Cleaner] = "scan"
    /\ flocal[Cleaner].todo = <<>>
    /\ temp_files' = ListRemoveAll(temp_files, flocal[Cleaner].files_to_remove)
    /\ cleanup_lock' = "free"
    /\ fpc' = [fpc EXCEPT ![Cleaner] = "sleep"]
    /\ flocal' = [flocal EXCEPT ![Cleaner] = NoLocal]
    /\ UNCHANGED <<fs, next_temp, last_removal>>
    /\ FileFrame

NextFiles ==
    \/ Tick
    \/ \E t \in RequestThreads, kind \in {"file", "dir"} : create_temp(t, kind)
    \/ \E t \in RequestThreads : create_temp_track(t)
    \/ \E path \in TempPaths : write_inside(path)
    \/ \E t \in RequestThreads, path \in Paths : cleanup_file(t, path)
    \/ \E t \in FileThreads : cleanup_file_untrack(t)
    \/ cleanup_old_files
    \/ cleanup_old_files_acquire
    \/ cleanup_old_files_scan
    \/ cleanup_old_files_finish

\* every thread that can take a step eventually takes one; a thread waiting
\* for the lock gets it if the lock keeps becoming free
FileFairness ==
    /\ WF_vars(cleanup_old_files_scan)
    /\ WF_vars(cleanup_old_files_finish)
    /\ SF_vars(cleanup_old_files_acquire)
    /\ \A t \in FileThreads : SF_vars(cleanup_file_untrack(t))
    /\ \A t \in RequestThreads : SF_vars(create_temp_track(t))

SpecFiles == Init /\ [][NextFiles]_vars /\ FileFairness

\* ---- the QR directory and its housekeeping ----
QrFrame ==
    /\ UNCHANGED attvars
    /\ UNCHANGED tokvars
    /\ UNCHANGED <<authvars, examvars, export>>
    /\ UNCHANGED uservars
    /\ UNCHANGED <<fs, temp_files, cleanup_lock, fpc, flocal, next_temp>>

\* generate_student_qr(student_id) saves qrcodes/student_<id>.png
generate_student_qr(s) ==
    /\ qr_dir[StudentQr(s)] # [kind |-> "file", mtime |-> time]
    /\ qr_dir' = [qr_dir EXCEPT ![StudentQr(s)] = [kind |-> "file", mtime |-> time]]
    /\ UNCHANGED last_removal
    /\ QrFrame

\* something else is put into the QR directory
put_in_qr_dir(name) ==
    /\ name \notin {StudentQr(s) : s \in 1..MaxStudentId}
    /\ qr_dir[name].kind = "none"
    /\ qr_dir' = [qr_dir EXCEPT ![name] =
                     [kind |-> IF name.stem = "folder" THEN "dir" ELSE "file",
                      mtime |-> time]]
    /\ UNCHANGED last_removal
    /\ QrFrame

cleanup_qr_codes(hours) ==
    /\ QrToRemove(hours) # {}
    /\ qr_dir' = [name \in QrNames |->
                     IF name \in QrToRemove(hours) THEN Absent ELSE qr_dir[name]]
    /\ last_removal' = [by |-> "cleanup_qr_codes", paths |-> QrToRemove(hours),
                        turn |-> ~last_removal.turn]
    /\ QrFrame

NextQr ==
    \/ Tick
    \/ \E s \in 1..MaxStudentId : generate_student_qr(s)
    \/ \E name \in QrNames : put_in_qr_dir(name)
    \/ cleanup_qr_codes(max_age_hours)

SpecQr == Init /\ [][NextQr]_vars

\* ---- bulk QR export ----
ExportFrame ==
    /\ UNCHANGED attvars
    /\ UNCHANGED tokvars
    /\ UNCHANGED <<authvars, examvars>>
    /\ UNCHANGED uservars
    /\ UNCHANGED <<fs, temp_files, cleanup_lock, fpc, flocal, next_temp, last_removal>>

\* the request arrives for a group of n students: the two checks before the
\* generation loop
get_group_qrcodes_endpoint(n) ==
    /\ export.pc = "idle"
    /\ export' =
          IF n = 0
          THEN [NoExport EXCEPT !.pc = "done", !.students = n,
                   !.response = [status |-> 404,
                                 detail |-> "No students found in this group"]]
          ELSE IF GroupTooLarge(n)
          THEN [NoExport EXCEPT !.pc = "done", !.students = n,
                   !.response = [status |-> 400, detail |-> "Group too large"]]
          ELSE [NoExport EXCEPT !.pc = "generate", !.students = n, !.i = 1]
    /\ UNCHANGED qr_dir
    /\ ExportFrame

\* one turn of the loop over the students, and after the last one the check of
\* valid_qr_files
export_generate(outcome, student_name) ==
    /\ export.pc = "generate"
    /\ LET s == export.i
           valid == Collected(export.valid_qr_files, s, outcome)
           last == s = export.students
       IN  /\ qr_dir' = AfterGenerate(qr_dir, s, outcome)
           /\ export' = [export EXCEPT
                  !.i = s + 1,
                  !.outcomes = Append(@, outcome),
                  !.names = Append(@, student_name),
                  !.valid_qr_files = valid,
                  !.filenames = IF Len(valid) > Len(export.valid_qr_files)
                                THEN Append(@, create_safe_filename(QrFilename(student_name)))
                                ELSE IF valid = <<>> THEN <<>> ELSE @,
                  !.pc = IF ~last THEN "generate"
                         ELSE IF valid = <<>> THEN "done" ELSE "archive",
                  !.response = IF last /\ valid = <<>>
                               THEN [status |-> 500,
                                     detail |-> "Failed to generate any QR codes"]
                               ELSE @]
    /\ ExportFrame

\* create_temp_file makes the archive file; it is written and verified, or
\* writing or verifying it fails and the except clause answers
export_archive(write, size_bytes, integrity) ==
    /\ export.pc = "archive"
    /\ LET stage == ArchiveStage(write, size_bytes, integrity)
       IN  export' = [export EXCEPT
               !.pc = "done",
               !.archive = [write |-> write, size |-> size_bytes,
                            integrity |-> integrity],
               !.zip_file = stage.zip_file,
               !.zip = IF stage.zip_file = "exists"
                       THEN Zipped(export.valid_qr_files, qr_dir) ELSE NoZip,
               !.zip_names = IF stage.zip_file = "exists"
                             THEN ZippedNames(export.valid_qr_files,
                                              export.filenames, qr_dir)
                             ELSE <<>>,
               !.response = stage.response]
    /\ UNCHANGED qr_dir
    /\ ExportFrame

\* the response is sent; the next request can arrive
export_return ==
    /\ export.pc = "done"
    /\ export' = NoExport
    /\ UNCHANGED qr_dir
    /\ ExportFrame

NextExport ==
    \/ \E n \in GroupSizes : get_group_qrcodes_endpoint(n)
    \/ \E outcome \in GenerateOutcomes, student_name \in StudentNames :
          export_generate(outcome, student_name)
    \/ \E write \in WriteOutcomes, size_bytes \in ArchiveSizes,
          integrity \in IntegrityOutcomes :
          export_archive(write, size_bytes, integrity)
    \/ export_return

SpecExport == Init /\ [][NextExport]_vars

\* ---- registration and login ----
UserFrame ==
    /\ UNCHANGED attvars
    /\ UNCHANGED tokvars
    /\ UNCHANGED <<authvars, examvars, iovars>>

Answer(local, status, detail) == [local EXCEPT !.status = status, !.detail = detail]

\* POST /auth/register up to the call of username_exists: the input validation
register(t, username_in, password) ==
    /\ rpc[t] = "idle"
    /\ LET username == strip(username_in)
           local == [NoRegister EXCEPT !.username = username, !.password = password]
       IN  IF username = <<>> \/ Len(username) < 3
           THEN /\ rpc' = [rpc EXCEPT ![t] = "done"]
                /\ rlocal' = [rlocal EXCEPT ![t] =
                      Answer(local, 400, "Username must be at least 3 characters long")]
           ELSE IF password = "" \/ Len(password) < 6
           THEN /\ rpc' = [rpc EXCEPT ![t] = "done"]
                /\ rlocal' = [rlocal EXCEPT ![t] =
                      Answer(local, 400, "Password must be at least 6 characters long")]
           ELSE /\ rpc' = [rpc EXCEPT ![t] = "username_exists"]
                /\ rlocal' = [rlocal EXCEPT ![t] = local]
    /\ UNCHANGED <<teachers, last_login, qr_scan>>
    /\ UserFrame

\* if username_exists(username): raise HTTPException(409)
register_username_exists(t) ==
    /\ rpc[t] = "username_exists"
    /\ IF username_exists(rlocal[t].username)
       THEN /\ rpc' = [rpc EXCEPT ![t] = "done"]
            /\ rlocal' = [rlocal EXCEPT ![t] = Answer(@, 409, "Username already exists")]
       ELSE /\ rpc' = [rpc EXCEPT ![t] = "insert_teacher"]
            /\ UNCHANGED rlocal
    /\ UNCHANGED <<teachers, last_login, qr_scan>>
    /\ UserFrame

\* success = insert_teacher(username, password): the INSERT meets the UNIQUE
\* constraint on username (sqlite3.IntegrityError, False is returned) or adds
\* the row; if not success: raise HTTPException(500)
register_insert_teacher(t) ==
    /\ rpc[t] = "insert_teacher"
    /\ LET username == strip(rlocal[t].username)
           password == rlocal[t].password
           rejected == Len(username) < 3 \/ Len(password) < 6
           integrity_error == TeacherRows(username) # {}
       IN  IF rejected \/ integrity_error
           THEN /\ UNCHANGED teachers
                /\ rlocal' = [rlocal EXCEPT ![t] =
                                 Answer(@, 500, "Failed to create user account")]
           ELSE /\ teachers' = teachers \cup
                      {[username |-> username, password |-> hash_password(password)]}
                /\ rlocal' = [rlocal EXCEPT ![t] =
                                 Answer(@, 200, "Account created successfully")]
    /\ rpc' = [rpc EXCEPT ![t] = "done"]
    /\ UNCHANGED <<last_login, qr_scan>>
    /\ UserFrame

\* the answer is sent
register_return(t) ==
    /\ rpc[t] = "done"
    /\ rpc' = [rpc EXCEPT ![t] = "idle"]
    /\ rlocal' = [rlocal EXCEPT ![t] = NoRegister]
    /\ UNCHANGED <<teachers, last_login, qr_scan>>
    /\ UserFrame

\* POST /auth/login
login(username_in, password) ==
    /\ LET username == strip(username_in)
           status == IF username = <<>> \/ password = "" THEN 400
                     ELSE IF teacher_exists(username, password) THEN 200 ELSE 401
       IN  last_login' = [username |-> username, password |-> password,
                          status |-> status, turn |-> ~last_login.turn]
    /\ UNCHANGED <<teachers, rpc, rlocal, qr_scan>>
    /\ UserFrame

\* the table as the server finds it: empty, or with a row written before
\* passwords were hashed
InitialTeachers ==
    {{}, {[username |-> <<"a", "n", "n">>, password |-> PlainText("hunter22")]}}

InitTeachers ==
    /\ groups = {}
    /\ students = {}
    /\ attendance = EmptyBag
    /\ next_group_id = 1
    /\ next_student_id = 1
    /\ pc = [t \in Threads |-> "idle"]
    /\ call = [t \in Threads |-> NoCall]
    /\ response = [t \in Threads |-> NoResponse]
    /\ audit = [t \in Threads |-> "none"]
    /\ recorded_present = [s \in 1..MaxStudentId |-> 0]
    /\ now = 0
    /\ tokens = {}
    /\ issued = {}
    /\ last_verify = NoVerify
    /\ exception_str = "status_code: detail"
    /\ SideInitButTeachers
    /\ teachers \in InitialTeachers

NextTeachers ==
    \/ \E t \in Threads, username_in \in UsernameInputs, password \in PasswordInputs :
          register(t, username_in, password)
    \/ \E t \in Threads : register_username_exists(t)
    \/ \E t \in Threads : register_insert_teacher(t)
    \/ \E t \in Threads : register_return(t)
    \/ \E username_in \in UsernameInputs, password \in PasswordInputs :
          login(username_in, password)

SpecTeachers == InitTeachers /\ [][NextTeachers]_vars

\* ---- the QR payload: encoded into the image, decoded after a scan ----
\* generate_student_qr: qr.add_data(str(student_id))
encode_payload(student_id) ==
    /\ qr_scan' = [student_id |-> student_id, payload |-> str(student_id),
                   decoded |-> 0, pc |-> "encoded"]
    /\ UNCHANGED <<teachers, rpc, rlocal, last_login>>
    /\ UserFrame

\* the scanned payload is resolved to a student id
decode_scanned ==
    /\ qr_scan.pc = "encoded"
    /\ qr_scan' = [qr_scan EXCEPT !.decoded = decode(qr_scan.payload), !.pc = "decoded"]
    /\ UNCHANGED <<teachers, rpc, rlocal, last_login>>
    /\ UserFrame

NextPayload ==
    \/ \E student_id \in 1..MaxQrStudentId : encode_payload(student_id)
    \/ decode_scanned

SpecPayload == Init /\ [][NextPayload]_vars

\* ---- authenticated requests: the endpoints that change attendance ----
\* a request arrives at endpoint with these credentials; FastAPI resolves
\* the endpoint's dependencies before calling the handler
Authorize(endpoint, credentials) ==
    /\ \A t \in Workers : pc[t] = "idle"
    /\ session' = Resolve(endpoint, credentials)
    /\ session' # session
    /\ UNCHANGED <<exception_str, last_optional>>
    /\ UNCHANGED examvars
    /\ UNCHANGED iovars
    /\ UNCHANGED uservars
    /\ UNCHANGED attvars
    /\ UNCHANGED tokvars

\* the handler runs only if the dependencies resolved
Serving(endpoints) == session.ok /\ session.endpoint \in endpoints

\* what a client can present: nothing, a token it was given, or the payload
\* of such a token signed with a key of its own
Presented ==
    {NoToken} \cup tokens \cup {[payload |-> token.payload, key |-> "another key"] : token \in tokens}

InitAuth ==
    /\ groups = 1..MaxGroupId
    /\ students = {[student_id |-> i, group_id |-> ((i - 1) % MaxGroupId) + 1,
                    attendance_count |-> 0] : i \in 1..MaxStudentId}
    /\ attendance = EmptyBag
    /\ next_group_id = MaxGroupId + 1
    /\ next_student_id = MaxStudentId + 1
    /\ pc = [t \in Threads |-> "idle"]
    /\ call = [t \in Threads |-> NoCall]
    /\ response = [t \in Threads |-> NoResponse]
    /\ audit = [t \in Threads |-> "none"]
    /\ recorded_present = [s \in 1..MaxStudentId |-> 0]
    /\ TokenInit

NextAuth ==
    \/ \E u \in Usernames : create_access_token(u, NoClaims)
    \/ \E endpoint \in RequiresToken \cup NoDependency, credentials \in Presented :
          Authorize(endpoint, credentials)
    \/ /\ Serving({"scan_attendance"})
       /\ \E t \in Workers, s \in StudentArgs, g \in GroupArgs, d \in DateArgs, p \in BOOLEAN :
             scan_attendance(t, s, g, d, p)
    \/ /\ Serving({"mark_absent_endpoint"})
       /\ \E t \in Workers, g \in GroupArgs, d \in DateArgs, ids \in BatchLists :
             mark_absent_students(t, g, d, ids)
    \/ /\ Serving({"remove_student_endpoint", "delete_student_endpoint"})
       /\ \E s \in StudentArgs : remove_student(s)
    \/ /\ Serving({"delete_group_endpoint"})
       /\ \E g \in GroupArgs : delete_group_by_id(g)
    \/ \E t \in Workers : RecordLookup(t)
    \/ \E t \in Workers : RecordInsert(t)
    \/ \E t \in Workers : RecordUpdate(t)
    \/ \E t \in Workers : Reply(t)

SpecAuth == InitAuth /\ [][NextAuth]_vars

\* ---- optional authentication: requests to the QR endpoints ----
HeaderPrefixes == {"", "Bearer ", "bearer ", "Basic "}

\* a request with an Authorization header and a token query parameter
get_current_teacher_optional(header, query) ==
    /\ last_optional' =
          [header |-> header, query |-> query,
           result |-> get_current_teacher_optional_value(header, query, now)]
    /\ UNCHANGED <<now, tokens, issued, last_verify, exception_str, session>>
    /\ UNCHANGED examvars
    /\ UNCHANGED iovars
    /\ UNCHANGED uservars
    /\ UNCHANGED attvars

NextOptional ==
    \/ \E u \in Usernames : create_access_token(u, NoClaims)
    \/ \E p \in ClientPayloads, k \in {ServerKey, "another key"} : ClientToken(p, k)
    \/ \E prefix \in HeaderPrefixes, rest, query \in tokens \cup {NoToken} :
          get_current_teacher_optional([prefix |-> prefix, rest |-> rest], query)

SpecOptional == InitToken /\ [][NextOptional]_vars

\* ==== claims ====
\* thread t took the step
Stepped(t) == <<pc[t], call[t]>>' # <<pc[t], call[t]>>
InRecord(t) == pc[t] \in {"lookup", "insert", "update"}
Count(s) == StudentRow(s).attendance_count
NumRows(s, d) == BagCardinality(RowsFor(s, d))
NumPresent(s) == BagCardinality(PresentRows(s))
ValidScan(t) ==
    /\ call[t].kind = "scan"
    /\ call[t].student_id # 0 /\ call[t].group_id # 0 /\ call[t].date # 0

\* C1: in every reachable state, under every interleaving of scan and
\* mark-absent requests, the store holds at most one attendance record per
\* (student_id, date), whatever the group; and a record_attendance step for a
\* pair that already has a record inserts nothing and overwrites nothing.
OneRecordPerStudentDate ==
    \A s \in 1..MaxStudentId, d \in 1..MaxDate : NumRows(s, d) <= 1
C2_CountEqualsPresentRecords ==
    Quiet => \A r \in students :
                /\ r.attendance_count \in Nat
                /\ r.attendance_count = NumPresent(r.student_id)

\* C3: when two threads scan the same (student_id, date) with present = true
\* and the pair has no record yet, exactly one is answered Recorded, the other
\* AlreadyRecorded, one record is stored and attendance_count is 1 higher
\* (the concurrent specification starts every count at 0).
RacePair(t, u) ==
    /\ t # u
    /\ pc[t] = "reply" /\ pc[u] = "reply"
    /\ ValidScan(t) /\ ValidScan(u)
    /\ call[t].present /\ call[u].present
    /\ call[t].student_id = call[u].student_id
    /\ call[t].date = call[u].date
C3_ExactlyOneRecorded ==
    \A t, u \in Threads :
        RacePair(t, u) =>
            /\ {Outcome(response[t]), Outcome(response[u])} = {"Recorded", "AlreadyRecorded"}
            /\ NumRows(call[t].student_id, call[t].date) = 1
            /\ Count(call[t].student_id) = 1
\* both threads passed the lookup before either inserted
C3_Witness ==
    /\ RacePair("t1", "t2")
    /\ audit["t1"] = "inserted" /\ audit["t2"] = "unique"
    /\ call["t1"].group_id # call["t2"].group_id

\* C4: the INSERT of a present record and the +1 on attendance_count are one
\* atomic unit: no reachable state, in particular none between the two
\* statements, has a present record that the counter does not count, or a
\* counted attendance without its record.
C4_InsertAndIncrementAtomic ==
    \A r \in students : r.attendance_count = NumPresent(r.student_id)

\* C5: per (student, date) the only transition record_attendance makes is
\* unrecorded -> recorded: its steps never remove or change a stored record,
\* and a step taken when the key already has a record leaves every record
\* and every attendance_count as they are and ends the call as
\* AlreadyRecorded (False for mark_absent_students, which then counts nothing).
C5_SecondRecordChangesNothing ==
    [][\A t \in Threads :
          (InRecord(t) /\ Stepped(t)) =>
             /\ \A r \in DOMAIN attendance :
                   r \in DOMAIN attendance' /\ attendance'[r] >= attendance[r]
             /\ (pc[t] # "update" /\ NumRows(call[t].student_id, call[t].date) > 0) =>
                   /\ attendance' = attendance
                   /\ students' = students
                   /\ call'[t].success_count = call[t].success_count
                   /\ pc'[t] # "update"
                   /\ (call[t].kind = "scan" /\ pc'[t] = "reply") =>
                         Outcome(response'[t]) = "AlreadyRecorded"]_vars
\* a scan found the record of an earlier scan and a racing scan lost at the INSERT
C5_Witness ==
    /\ pc["t1"] = "reply" /\ pc["t2"] = "reply"
    /\ ValidScan("t1") /\ ValidScan("t2")
    /\ audit["t1"] \in {"existing", "unique"}
    /\ audit["t2"] = "inserted"
    /\ call["t1"].student_id = call["t2"].student_id
    /\ call["t1"].date = call["t2"].date
    /\ call["t1"].present # call["t2"].present
    /\ NumRows(call["t1"].student_id, call["t1"].date) = 1

\* C6: a scan is answered AlreadyRecorded only when it found an existing row
\* or lost the race at the uniqueness constraint; a storage failure (unknown
\* student or group, failed write) is answered differently.
C6_AlreadyRecordedOnlyForDuplicates ==
    \A t \in Threads :
        (pc[t] = "reply" /\ call[t].kind = "scan"
            /\ Outcome(response[t]) = "AlreadyRecorded")
        => audit[t] \in {"existing", "unique"}

\* C7: a stored student's attendance_count equals the number of
\* present = true record calls for that student that returned True since the
\* student was created with count 0 (N such calls on N distinct dates give
\* N), and no step of a present = false call, direct or through
\* mark_absent_students, changes any attendance_count.
C7_CountIsNumberOfPresentRecordings ==
    /\ [](\A r \in students : r.attendance_count = recorded_present[r.student_id])
    /\ [][\A t \in Threads :
            (InRecord(t) /\ Stepped(t) /\ ~call[t].present) => students' = students]_vars
\* two present recordings on two dates, and an absence recorded for another student
C7_Witness ==
    \E r \in students :
        /\ r.attendance_count = 2
        /\ recorded_present[r.student_id] = 2
        /\ \E d1, d2 \in 1..MaxDate :
              d1 # d2 /\ NumRows(r.student_id, d1) = 1 /\ NumRows(r.student_id, d2) = 1
        /\ Quiet

\* C8: mark_absent_batch returns the number of ids whose record was inserted.
C8_BatchReturnsInsertedCount ==
    \A t \in Threads :
        (pc[t] = "reply" /\ call[t].kind = "batch" /\ response[t].status = 200)
        => response[t].marked = call[t].success_count

\* C9: a record call whose student_id, group_id or date is absent, zero or
\* empty is Rejected and never reaches the store: the scan is answered 400 in
\* the step that receives it, with every record and count unchanged, and no
\* statement of record_attendance ever runs with such an argument.
ZeroArgument(c) == c.student_id = 0 \/ c.group_id = 0 \/ c.date = 0
C9_RejectedTouchesNothing ==
    /\ [](\A t \in Threads : InRecord(t) => ~ZeroArgument(call[t]))
    /\ [][\A t \in Threads :
            (pc[t] = "idle" /\ call'[t].kind = "scan" /\ ZeroArgument(call'[t])) =>
               /\ pc'[t] = "reply"
               /\ Outcome(response'[t]) = "Rejected"
               /\ attendance' = attendance
               /\ students' = students]_vars
\* a scan without group_id was answered 400 while the student has a record
C9_Witness ==
    \E t \in Threads :
        /\ pc[t] = "reply" /\ call[t].kind = "scan"
        /\ call[t].student_id # 0 /\ call[t].group_id = 0 /\ call[t].date # 0
        /\ Outcome(response[t]) = "Rejected"
        /\ NumRows(call[t].student_id, call[t].date) = 1

\* C10: for every username u, verify_token applied to the token of
\* create_access_token(u), at the moment of issue and at any time before the
\* token's expiry, returns u; verify_token applied to a token signed with the
\* server key whose expiry lies in the past fails with "Token expired".
C10_VerifyIssueRoundTrip ==
    /\ \A i \in issued :
          (i.additional_claims = NoClaims /\ now < i.token.payload["exp"])
             => verify_token(i.token, now) = Accepted(i.username)
    /\ \A i \in issued :
          (i.additional_claims = NoClaims /\ now = i.token.payload["iat"])
             => verify_token(i.token, now) = Accepted(i.username)
    /\ \A token \in tokens :
          (token.key = ServerKey /\ "exp" \in DOMAIN token.payload
              /\ token.payload["exp"] < now)
             => verify_token(token, now) = Unauthorized("Token expired")
    /\ \A i \in issued :
          (last_verify.token = i.token /\ i.additional_claims = NoClaims
              /\ now < i.token.payload["exp"])
             => last_verify.result = Accepted(i.username)
\* a token issued earlier and not yet expired has just been verified, while a
\* client-built, correctly signed token with a past expiry exists
C10_Witness ==
    /\ \E i \in issued :
          /\ i.additional_claims = NoClaims
          /\ i.token.payload["iat"] < now /\ now < i.token.payload["exp"]
          /\ last_verify = [token |-> i.token, result |-> Accepted(i.username)]
    /\ \E token \in tokens :
          /\ token.key = ServerKey
          /\ token.payload["exp"] < now
          /\ token \notin {i.token : i \in issued}
          /\ verify_token(token, now).detail = "Token expired"

\* the reasons verify has to refuse a token, read off the token itself
Malformed(token) == token.key # ServerKey
PastExpiry(token) ==
    ~Malformed(token) /\ "exp" \in DOMAIN token.payload /\ token.payload["exp"] < now
InTime(token) ==
    ~Malformed(token) /\ "exp" \in DOMAIN token.payload /\ now < token.payload["exp"]
MissingClaim(token) == InTime(token) /\ "username" \notin DOMAIN token.payload
InvalidType(token) ==
    /\ InTime(token)
    /\ "type" \in DOMAIN token.payload
    /\ token.payload["type"] # AccessToken
Causes(token) ==
    {c \in {"Expired", "InvalidType", "Malformed", "MissingClaim"} :
        \/ c = "Expired" /\ PastExpiry(token)
        \/ c = "InvalidType" /\ InvalidType(token)
        \/ c = "Malformed" /\ Malformed(token)
        \/ c = "MissingClaim" /\ MissingClaim(token)}

\* C11: verify_token refuses a token that is past its expiry, has another
\* type marker, fails the signature check or lacks the username claim, and
\* two tokens refused for different single causes reach the caller with
\* different error outcomes.
C11_FourDistinctErrors ==
    /\ \A token \in tokens :
          Causes(token) # {} => ~verify_token(token, now).ok
    /\ \A a, b \in tokens :
          (Cardinality(Causes(a)) = 1 /\ Cardinality(Causes(b)) = 1
              /\ Causes(a) # Causes(b))
             => verify_token(a, now).detail # verify_token(b, now).detail

\* C12: at every step, whatever the step does (another token issued for
\* the same username, a client token, a verification, the clock moving), a
\* token verify_token accepts is still accepted afterwards while the clock
\* is before its expiry, and a token verify_token reports expired is not
\* accepted afterwards; a token issued here is accepted from its issue on
\* while the clock is before its expiry.
C12_IssuedValidExpired ==
    /\ [][\A token \in tokens :
            /\ (verify_token(token, now).ok /\ now' < token.payload["exp"])
                  => verify_token(token, now').ok
            /\ verify_token(token, now).detail = "Token expired"
                  => ~verify_token(token, now').ok]_vars
    /\ [](\A i \in issued :
            (i.additional_claims = NoClaims /\ i.token.payload["iat"] <= now
                /\ now < i.token.payload["exp"])
               => verify_token(i.token, now).ok)
\* a token issued earlier has just been accepted, after a second token was
\* issued for the same username at a later time
C12_Witness ==
    \E i, j \in issued :
        /\ i.username = j.username
        /\ i.additional_claims = NoClaims /\ j.additional_claims = NoClaims
        /\ i.token.payload["iat"] < j.token.payload["iat"]
        /\ j.token.payload["iat"] <= now
        /\ last_verify = [token |-> i.token, result |-> Accepted(i.username)]

\* the header carries a token: the Bearer prefix followed by a token
HeaderCarries(header) == header.prefix = "Bearer " /\ header.rest # NoToken

\* C13: get_current_teacher_optional answers for the token after the Bearer
\* prefix when the Authorization header carries one, otherwise for the token
\* query parameter; with a token in either source its answer is verify_token's
\* answer for that token, and it answers unauthenticated exactly when neither
\* source carries a token.
C13_OptionalTokenSource ==
    LET r == last_optional
    IN r # NoOptional =>
          /\ HeaderCarries(r.header) => r.result = verify_token(r.header.rest, now)
          /\ (~HeaderCarries(r.header) /\ r.query # NoToken)
                => r.result = verify_token(r.query, now)
          /\ r.result = Unauthenticated
                <=> (~HeaderCarries(r.header) /\ r.query = NoToken)
\* a request whose header carries a token verify_token refuses and whose query
\* parameter carries a token verify_token accepts was refused
C13_Witness ==
    /\ HeaderCarries(last_optional.header)
    /\ last_optional.query # NoToken
    /\ verify_token(last_optional.query, now).ok
    /\ ~verify_token(last_optional.header.rest, now).ok
    /\ ~last_optional.result.ok

\* C14: what verify_token answered for a token is what it answers for that
\* token at the same clock reading in every later state, whichever tokens
\* were issued, built or verified in between; two tokens issued for the same
\* username are each accepted while the clock is before their own expiry.
C14_VerifyDependsOnTokenAndClockOnly ==
    /\ last_verify # NoVerify
          => last_verify.result = verify_token(last_verify.token, now)
    /\ \A i, j \in issued :
          (i # j /\ i.username = j.username
              /\ i.additional_claims = NoClaims /\ j.additional_claims = NoClaims)
             => /\ InTime(i.token) => verify_token(i.token, now) = Accepted(i.username)
                /\ InTime(j.token) => verify_token(j.token, now) = Accepted(j.username)
\* two tokens issued for one username at different times, both before their
\* expiry, the later one just accepted
C14_Witness ==
    \E i, j \in issued :
        /\ i.username = j.username
        /\ i.additional_claims = NoClaims /\ j.additional_claims = NoClaims
        /\ i.token.payload["exp"] < j.token.payload["exp"]
        /\ InTime(i.token) /\ InTime(j.token)
        /\ verify_token(i.token, now).ok
        /\ last_verify = [token |-> j.token, result |-> Accepted(j.username)]

\* a step changes a stored attendance record or a remaining student's
\* attendance_count
ChangesAttendance ==
    \/ attendance' # attendance
    \/ \E r \in students, q \in students' :
          r.student_id = q.student_id /\ r.attendance_count # q.attendance_count

\* C15: no step of a request changes a stored attendance record or a
\* student's attendance_count unless verify_token returned a username for the
\* request being served.
C15_MutationsNeedVerifiedToken ==
    [][ChangesAttendance => (session.ok /\ session.user # None)]_vars

\* the store holds nothing of group g
HoldsNothingOf(g) ==
    /\ g \notin groups
    /\ \A r \in students : r.group_id # g
    /\ \A e \in exams : e.group_id # g
    /\ \A r \in DOMAIN attendance : r.group_id # g

\* C16: a delete_group_by_id(g) that reports success leaves no group g and
\* no student, exam or attendance row whose group_id is g; one in which a
\* statement raised leaves groups, students, exams and attendance as they
\* were.
C16_DeleteGroupCascadesAtomically ==
    [][last_delete' # last_delete =>
          /\ last_delete'.success =>
                LET g == last_delete'.group_id
                IN /\ g \notin groups'
                   /\ \A r \in students' : r.group_id # g
                   /\ \A e \in exams' : e.group_id # g
                   /\ \A r \in DOMAIN attendance' : r.group_id # g
          /\ last_delete'.fail_at # 0 => UNCHANGED <<groups, students, exams, attendance>>]_vars
\* a group with a student, an exam and an attendance record was deleted
C16_Witness ==
    /\ last_delete.success
    /\ last_delete.attendance_deleted > 0
    /\ last_delete.exams_deleted > 0
    /\ last_delete.students_deleted > 0
    /\ HoldsNothingOf(last_delete.group_id)

\* C17: every cleanup_old_files run that has started finishes and leaves
\* the lock free, and every create_temp_file, create_temp_directory or
\* cleanup_file call of a request that has reached the lock gets it and
\* returns, whatever the cleanup thread is doing.
C17_HousekeepingNeverBlocks ==
    /\ (fpc[Cleaner] # "sleep") ~> (fpc[Cleaner] = "sleep" /\ cleanup_lock = "free")
    /\ \A t \in RequestThreads : (fpc[t] # "idle") ~> (fpc[t] = "idle")

\* C18: whatever cleanup_old_files removes is a path of temp_files whose age
\* is strictly greater than max_file_age, and whatever cleanup_qr_codes
\* removes is a .png file of the QR directory whose age is strictly greater
\* than the threshold; nothing else, and nothing of exactly the threshold
\* age, is removed by either.
C18_HousekeepingRemovesOnlyOldOwnFiles ==
    [][last_removal' # last_removal =>
          /\ last_removal'.by = "cleanup_old_files" =>
                \A path \in last_removal'.paths :
                    /\ InList(temp_files, path)
                    /\ time - fs[path].mtime > max_file_age
          /\ last_removal'.by = "cleanup_qr_codes" =>
                \A name \in last_removal'.paths :
                    /\ IsFile(qr_dir[name])
                    /\ name.suffix = ".png"
                    /\ time - qr_dir[name].mtime > max_age_hours * SecondsPerHour]_vars

\* the students of the request whose image generation succeeded, in order
RECURSIVE Saved(_, _)
Saved(outcomes, k) ==
    IF k = 0 THEN <<>>
    ELSE Saved(outcomes, k - 1) \o (IF outcomes[k] = "saved" THEN <<k>> ELSE <<>>)

\* C19: the bulk export of a group without students answers 404 (NotFound),
\* and the export of a group with more students than MAX_STUDENTS_PER_GROUP
\* is rejected (400) with no image generated and no archive created.
C19_ExportRejectsEmptyAndOversizedGroups ==
    export.pc # "idle" =>
        /\ export.students = 0 =>
              /\ export.pc = "done"
              /\ export.response.status = 404
        /\ export.students > MAX_STUDENTS_PER_GROUP =>
              /\ export.pc = "done"
              /\ export.response.status = 400
              /\ export.outcomes = <<>>
              /\ export.valid_qr_files = <<>>
              /\ export.zip = NoZip
C19_Witness ==
    /\ export.pc = "done"
    /\ export.students = MAX_STUDENTS_PER_GROUP + 1
    /\ export.response.status = 400
    /\ \E name \in QrNames : qr_dir[name].kind = "file"

\* C20: in the bulk export a student whose image generation fails is
\* skipped and the loop goes on: no answer is given before the last student,
\* the files handed to the archive and the archive of a successful export
\* are the images of exactly the students whose generation succeeded, and
\* the generation stage answers 500 (InternalError) exactly when generation
\* failed for every student.
C20_ExportIsolatesGenerationFailures ==
    LET saved == Saved(export.outcomes, Len(export.outcomes))
        generation_failed ==
            /\ export.response.status = 500
            /\ export.response.detail = "Failed to generate any QR codes"
    IN  /\ export.pc = "generate" => export.response = NoExportResponse
        /\ export.pc \in {"generate", "archive"} => export.valid_qr_files = saved
        /\ export.pc = "archive" =>
              /\ Len(export.outcomes) = export.students
              /\ saved # <<>>
              /\ export.response = NoExportResponse
        /\ generation_failed <=>
              /\ export.pc = "done"
              /\ export.students > 0
              /\ Len(export.outcomes) = export.students
              /\ saved = <<>>
        /\ export.response.status = 200 =>
              /\ export.zip = saved
              /\ Len(export.outcomes) = export.students
C20_Witness ==
    /\ export.pc = "done"
    /\ export.response.status = 200
    /\ \E k \in DOMAIN export.outcomes : export.outcomes[k] = "error"
    /\ export.zip # <<>>

\* C21: an archive larger than MAX_FILE_SIZE_MB is not returned: the request
\* is answered with the size-limit error (413), which is not the generic
\* archive-creation failure (500), and the archive file is removed.
C21_OversizedArchiveRejectedExplicitly ==
    (/\ export.pc = "done"
     /\ export.archive.write = "written"
     /\ ~validate_file_size(export.archive.size))
    => /\ export.response.status = 413
       /\ export.zip_file = "removed"

\* an export whose archive stage met one of the failures: writing raised, the
\* archive is missing or empty, it is over the size ceiling, or the integrity
\* test raised or found a bad entry
ArchiveFailure ==
    \/ export.archive.write \in {"raises", "vanished"}
    \/ /\ export.archive.write = "written"
       /\ \/ ~validate_file_size(export.archive.size)
          \/ export.archive.size = 0
          \/ export.archive.integrity \in {"raises", "bad entry"}

\* C22: when the export met a failure after the archive file was created, the
\* answer is an error and the archive file is no longer on disk.
C22_FailedArchiveIsDiscarded ==
    (export.pc = "done" /\ ArchiveFailure)
    => /\ export.response.status >= 400
       /\ export.zip_file = "removed"

\* C23: whenever generate_student_qr reports failure (returns None), no file
\* is left at the student's QR path.
C23_FailedGenerationLeavesNoFile ==
    [][(/\ export.pc = "generate"
        /\ Len(export'.outcomes) = Len(export.outcomes) + 1
        /\ export'.outcomes[Len(export'.outcomes)] # "saved")
       => qr_dir'[StudentQr(export.i)].kind = "none"]_vars

\* C24: the archive of a successful export has one entry per student whose
\* image was generated, and no two of its entries have the same name.
C24_ArchiveNamesAreCollisionFree ==
    export.response.status = 200 =>
        /\ Len(export.zip_names) = Len(Saved(export.outcomes, Len(export.outcomes)))
        /\ \A j, k \in DOMAIN export.zip_names :
              j # k => export.zip_names[j] # export.zip_names[k]

\* C28: every token issued by create_access_token carries the username it
\* was issued for, the access-token type marker, an issue timestamp and an
\* expiry of issue time plus JWT_EXPIRATION_HOURS, whatever additional claims
\* were passed.
C28_IssuedTokenKeepsItsFourFields ==
    \A i \in issued :
        /\ {"username", "type", "iat", "exp"} \subseteq DOMAIN i.token.payload
        /\ i.token.payload["username"] = i.username
        /\ i.token.payload["type"] = AccessToken
        /\ i.token.payload["exp"] = i.token.payload["iat"] + JWT_EXPIRATION_HOURS

\* C30: delete_group for an id without a group row reports failure and
\* leaves every student, exam and attendance row as it was, the rows that
\* carry that id as their group reference included.
C30_DeleteOfMissingGroupChangesNothing ==
    [][(/\ last_delete' # last_delete
        /\ last_delete'.group_id # 0
        /\ last_delete'.group_id \notin groups)
       => /\ ~last_delete'.success
          /\ students' = students
          /\ exams' = exams
          /\ attendance' = attendance]_vars

\* C26: for every group and every date or no date, the summary gives as
\* numbers total = the number of the group's matching attendance records,
\* present = the number of those with present = true and absent = total -
\* present, also when no record matches; without a date it also gives the
\* number of distinct dates and of distinct students.
C26_SummaryCountsAddUp ==
    \A g \in groups, d \in DateArgs :
        LET summary == get_attendance_summary(g, d)
            matching == {r \in DOMAIN attendance :
                            r.group_id = g /\ (d # 0 => r.date = d)}
            total == BagCardinality([r \in matching |-> attendance[r]])
            present == BagCardinality(
                          [r \in {x \in matching : x.present = 1} |-> attendance[r]])
        IN  /\ summary.total_records = SqlInt(total)
            /\ summary.present_count = SqlInt(present)
            /\ summary.absent_count = SqlInt(total - present)
            /\ d = 0 =>
                  /\ summary.total_days = SqlInt(Cardinality({r.date : r \in matching}))
                  /\ summary.total_students =
                        SqlInt(Cardinality({r.student_id : r \in matching}))

\* C25: at most one teacher row exists per username, and a registration
\* that answers while its username is taken, the loser of two concurrent
\* registrations of one name included, changes no teacher row and answers 409
\* (ConflictError).
C25_DuplicateUsernameIsConflict ==
    /\ [](\A r1, r2 \in teachers : r1.username = r2.username => r1 = r2)
    /\ [][\A t \in Threads :
            (/\ rpc[t] \in {"username_exists", "insert_teacher"}
             /\ rpc'[t] = "done"
             /\ TeacherRows(rlocal[t].username) # {})
            => /\ teachers' = teachers
               /\ rlocal'[t].status = 409]_vars

\* C27: for every positive student id s the payload put into the QR code is
\* the decimal string of s, and decoding it gives s.
C27_PayloadRoundTrip ==
    /\ qr_scan.pc # "idle" =>
          /\ qr_scan.payload # <<>>
          /\ \A k \in DOMAIN qr_scan.payload :
                DigitValue(qr_scan.payload[k]) \in 0..9
          /\ DigitValue(qr_scan.payload[1]) # 0
          /\ Len(qr_scan.payload) =
                (IF qr_scan.student_id < 10 THEN 1
                 ELSE IF qr_scan.student_id < 100 THEN 2 ELSE 3)
    /\ qr_scan.pc = "decoded" => qr_scan.decoded = qr_scan.student_id
C27_Witness ==
    /\ qr_scan.pc = "decoded"
    /\ qr_scan.student_id > 100
    /\ qr_scan.student_id % 10 = 9
    /\ qr_scan.decoded = qr_scan.student_id

\* C29: login accepts a password only when the password-verify capability
\* accepts it against the stored digest of the teacher's row.
C29_LoginOnlyThroughPasswordVerify ==
    last_login.status = 200 =>
        \E row \in TeacherRows(last_login.username) :
            pwd_context_verify(last_login.password, row.password) = "True"

TypeOK ==
    /\ groups \subseteq 1..MaxGroupId
    /\ \A r \in students : r.student_id \in 1..MaxStudentId /\ r.attendance_count \in Nat
    /\ \A t \in Threads : pc[t] \in {"idle", "lookup", "insert", "update", "reply"}

====
